---- MODULE Spec2Model ----
(***************************************************************************)
(* A model of logproof's test helpers (src/logproof/src/test.rs): the      *)
(* sequence trimmer strip_trailing_value, the RNS small-integer decoder    *)
(* convert_to_smallint / convert_to_small_coeffs, the multiprecision       *)
(* reconstructor convert_to_polynomial and the BFV parameter bfv_delta.    *)
(*                                                                         *)
(* Every entry point is a pure function of its arguments.  A behaviour is  *)
(* one call: Init draws the entry point and its arguments, the actions     *)
(* run it.  A Rust panic (a failed unwrap, a slice out of range) leaves    *)
(* pc = "panicked" with the panicking expression in ret; no value is       *)
(* returned on that path.                                                  *)
(*                                                                         *)
(* Machine words are u64 in the source.  The model keeps the arithmetic    *)
(* of the source at a word width of WordBits bits: u64 is WordBits wide,   *)
(* i64 is its two's complement and i128 is twice as wide.                  *)
(***************************************************************************)
EXTENDS Integers, Sequences, FiniteSets, TLC

\* op: the entry point called; args: its arguments; pc: where the call is;
\* locals: the let-bindings made so far; ret: what the call returned.
VARIABLES op, args, pc, locals, ret

vars == <<op, args, pc, locals, ret>>

(***************************************************************************)
(* Bounds of the model.                                                    *)
(***************************************************************************)
\* Width of a machine word (u64 in the source), in bits.
WordBits == 3
\* strip_trailing_value: longest vector and largest element tried.
MaxLen == 4
MaxValue == 2
\* RNS decoder: largest first modulus, most coefficients in a polynomial
\* array (num_polynomials * poly_modulus_degree), largest coeff_modulus_size.
MaxModulus == 7
MaxCoeffs == 4
MaxCms == 2
\* Multiprecision reconstructor: longest buffer in words, largest limb
\* count N of the target ring.
MaxWords == 6
MaxLimbs == 2
\* Limbs of a ZqRistretto value (crate::rings: four u64 limbs); the model
\* keeps two limbs of WordBits bits.
RingLimbs == 2

WordMax == 2^WordBits - 1
Word == 0..WordMax

NoValue == [status |-> "none"]
Panic(what) == [status |-> "panic", what |-> what]
Ok(value) == [status |-> "ok", value |-> value]

\* All sequences over S of length at most n.
SeqsUpTo(S, n) == UNION {[1..k -> S] : k \in 0..n}

(***************************************************************************)
(* strip_trailing_value                                                    *)
(***************************************************************************)
\* A plausible slip: `if` instead of `while`, one element popped at most.
strip_pop_once(v, trim_value) ==
    IF Len(v) > 0 /\ v[Len(v)] = trim_value THEN SubSeq(v, 1, Len(v) - 1) ELSE v

\* A plausible slip: the loop compares with != and pops what it should keep.
RECURSIVE strip_while_different(_, _)
strip_while_different(v, trim_value) ==
    IF Len(v) > 0 /\ v[Len(v)] # trim_value
    THEN strip_while_different(SubSeq(v, 1, Len(v) - 1), trim_value)
    ELSE v

\* while v.last().map_or(false, |c| *c == trim_value) { v.pop(); }  v
RECURSIVE strip_trailing_value(_, _)
strip_trailing_value(v, trim_value) ==
    IF Len(v) > 0 /\ v[Len(v)] = trim_value
    THEN strip_trailing_value(SubSeq(v, 1, Len(v) - 1), trim_value)
    ELSE v

TrimValues == 0..MaxValue

InitTrim ==
    /\ op = "strip_trailing_value"
    /\ \E v \in SeqsUpTo(TrimValues, MaxLen), z \in TrimValues :
          args = [v |-> v, trim_value |-> z]
    /\ pc = "called"
    /\ locals = NoValue
    /\ ret = NoValue

\* A call of strip_trailing_value(v, trim_value).
StripTrailingValue ==
    /\ op = "strip_trailing_value"
    /\ pc = "called"
    /\ ret' = Ok(strip_trailing_value(args.v, args.trim_value))
    /\ pc' = "returned"
    /\ UNCHANGED <<op, args, locals>>

\* A second call, on the vector the first call returned.
StripTrailingValueAgain ==
    /\ op = "strip_trailing_value"
    /\ pc = "returned"
    /\ args' = [v |-> ret.value, trim_value |-> args.trim_value]
    /\ ret' = Ok(strip_trailing_value(ret.value, args.trim_value))
    /\ pc' = "returned again"
    /\ UNCHANGED <<op, locals>>

NextTrim == StripTrailingValue \/ StripTrailingValueAgain

SpecTrim == InitTrim /\ [][NextTrim]_vars

\* s is an initial segment of t.
IsPrefix(s, t) == Len(s) <= Len(t) /\ SubSeq(t, 1, Len(s)) = s

(* C2: strip_trailing_value(v, z) returns the prefix of v left by removing
   exactly the maximal trailing run of elements equal to z: the result is a
   prefix of v, no longer than v, empty or ending in an element other than z,
   and every removed element equals z. *)
C2_StripRemovesMaximalTrailingRun ==
    (op = "strip_trailing_value" /\ pc = "returned") =>
        LET v == args.v
            z == args.trim_value
            r == ret.value
        IN /\ ret.status = "ok"
           /\ IsPrefix(r, v)
           /\ Len(r) <= Len(v)
           /\ (r = <<>> \/ r[Len(r)] # z)
           /\ \A k \in (Len(r) + 1)..Len(v) : v[k] = z

\* A vector with an interior z and a trailing run of two z's has been stripped.
C2_Witness ==
    /\ op = "strip_trailing_value" /\ pc = "returned"
    /\ Len(args.v) = 4 /\ Len(ret.value) = 2
    /\ args.v[1] = args.trim_value

(* C8: strip_trailing_value is idempotent: stripping the vector a first call
   returned, with the same trim value, returns that vector unchanged. *)
C8_StripIdempotent ==
    (op = "strip_trailing_value" /\ pc = "returned again") =>
        /\ ret.status = "ok"
        /\ ret.value = args.v

\* The second call has run on a vector the first call had shortened.
C8_Witness ==
    /\ op = "strip_trailing_value" /\ pc = "returned again"
    /\ Len(args.v) = 2 /\ ret.value = args.v
    /\ args.v[1] = args.trim_value

(***************************************************************************)
(* convert_to_smallint, convert_to_small_coeffs                            *)
(***************************************************************************)
\* `x as i64`: the low WordBits bits of x, read as two's complement.
AsI64(x) ==
    LET r == x % 2^WordBits
    IN IF r >= 2^(WordBits - 1) THEN r - 2^WordBits ELSE r

\* `x as i128`: i128 is twice as wide as a word.
AsI128(x) ==
    LET r == x % 2^(2 * WordBits)
    IN IF r >= 2^(2 * WordBits - 1) THEN r - 2^(2 * WordBits) ELSE r

\* A plausible slip: the comparison is >= and m/2 itself becomes negative.
small_coeff_ge(coeff, first_coefficient) ==
    IF coeff >= first_coefficient \div 2
    THEN AsI64(AsI128(AsI128(coeff) - AsI128(first_coefficient)))
    ELSE AsI64(coeff)

\* A plausible slip: the subtraction is done in u64 halves the wrong way
\* round (first_coefficient - coeff), giving the magnitude, not the value.
small_coeff_magnitude(coeff, first_coefficient) ==
    IF coeff > first_coefficient \div 2
    THEN AsI64(AsI128(AsI128(first_coefficient) - AsI128(coeff)))
    ELSE AsI64(coeff)

\* if coeff > first_coefficient / 2
\*     { ((coeff as i128) - (first_coefficient as i128)) as i64 }
\* else { coeff as i64 }
small_coeff(coeff, first_coefficient) ==
    IF coeff > first_coefficient \div 2
    THEN AsI64(AsI128(AsI128(coeff) - AsI128(first_coefficient)))
    ELSE AsI64(coeff)

\* A plausible slip: the words of one coefficient taken as adjacent.
rns_index_interleaved(i, j, poly_modulus_degree, coeff_modulus_size) ==
    (i * poly_modulus_degree + j) * coeff_modulus_size

\* let index = i * poly_modulus_degree * coeff_modulus_size + j;
rns_index(i, j, poly_modulus_degree, coeff_modulus_size) ==
    i * poly_modulus_degree * coeff_modulus_size + j

\* The body of convert_to_smallint; i and j count from 0 as in the source,
\* sequences from 1.
convert_to_smallint(coeff_modulus, poly_array) ==
    LET num_polynomials == poly_array.num_polynomials
        poly_modulus_degree == poly_array.poly_modulus_degree
        coeff_modulus_size == poly_array.coeff_modulus_size
        rns == poly_array.rns
        index(i, j) == rns_index(i, j, poly_modulus_degree, coeff_modulus_size)
    IN IF Len(coeff_modulus) = 0 THEN Panic("coeff_modulus[0]")
       ELSE IF \E i \in 0..(num_polynomials - 1), j \in 0..(poly_modulus_degree - 1) :
                  index(i, j) >= Len(rns)
       THEN Panic("rns[index]")
       ELSE Ok([i \in 1..num_polynomials |->
                  [j \in 1..poly_modulus_degree |->
                     small_coeff(rns[index(i - 1, j - 1) + 1], coeff_modulus[1])]])

\* convert_to_smallint(..).into_iter().map(|v| strip_trailing_value(v, 0)).collect()
convert_to_small_coeffs(coeff_modulus, poly_array) ==
    LET r == convert_to_smallint(coeff_modulus, poly_array)
    IN IF r.status # "ok" THEN r
       ELSE Ok([i \in 1..Len(r.value) |-> strip_trailing_value(r.value[i], 0)])

\* The RNS view of a PolynomialArray: for each polynomial, for each modulus
\* of the chain, poly_modulus_degree words, each reduced by its modulus.
\* limb0 holds the words of the first modulus; the words of the other
\* moduli (each WordMax here) are all `fill`.
RnsBuffer(num, deg, cms, limb0, fill) ==
    [idx \in 1..(num * deg * cms) |->
        LET p == (idx - 1) \div (deg * cms)
            r == (idx - 1) % (deg * cms)
        IN IF r \div deg = 0 THEN limb0[p * deg + (r % deg) + 1] ELSE fill]

SmallOps == {"convert_to_smallint", "convert_to_small_coeffs"}

InitSmall ==
    /\ op \in SmallOps
    /\ \E m \in 1..MaxModulus, cms \in 1..MaxCms,
          num \in 0..MaxCoeffs, deg \in 1..MaxCoeffs :
          /\ num * deg <= MaxCoeffs
          /\ \E limb0 \in [1..(num * deg) -> 0..(m - 1)], fill \in {WordMax - 1} :
                args = [coeff_modulus |-> [k \in 1..cms |-> IF k = 1 THEN m ELSE WordMax],
                        poly_array |-> [num_polynomials |-> num,
                                        poly_modulus_degree |-> deg,
                                        coeff_modulus_size |-> cms,
                                        rns |-> RnsBuffer(num, deg, cms, limb0, fill)]]
    /\ pc = "called"
    /\ locals = NoValue
    /\ ret = NoValue

\* pc after a call that ended with r.
After(r) == IF r.status = "ok" THEN "returned" ELSE "panicked"

\* A call of convert_to_smallint(coeff_modulus, poly_array).
ConvertToSmallint ==
    /\ op = "convert_to_smallint"
    /\ pc = "called"
    /\ ret' = convert_to_smallint(args.coeff_modulus, args.poly_array)
    /\ pc' = After(ret')
    /\ UNCHANGED <<op, args, locals>>

\* A call of convert_to_small_coeffs(coeff_modulus, poly_array).
ConvertToSmallCoeffs ==
    /\ op = "convert_to_small_coeffs"
    /\ pc = "called"
    /\ ret' = convert_to_small_coeffs(args.coeff_modulus, args.poly_array)
    /\ pc' = After(ret')
    /\ UNCHANGED <<op, args, locals>>

NextSmall == ConvertToSmallint \/ ConvertToSmallCoeffs

SpecSmall == InitSmall /\ [][NextSmall]_vars

\* The word of coefficient j of polynomial i under the first modulus, at the
\* place the claims give it: i * poly_modulus_degree * coeff_modulus_size + j.
FirstLimbWord(i, j) ==
    LET pa == args.poly_array
    IN pa.rns[i * pa.poly_modulus_degree * pa.coeff_modulus_size + j + 1]

\* d is the centered representative of c modulo m.
IsCentered(d, c, m) == (d - c) % m = 0 /\ -m < 2 * d /\ 2 * d <= m

(* C1: for every first modulus m and every input word c in [0, m), the
   value d convert_to_smallint produces for c satisfies d = c (mod m) and
   -m/2 < d <= m/2, for odd and even m alike. *)
C1_CenteredRepresentative ==
    (op = "convert_to_smallint" /\ pc # "called") =>
        /\ pc = "returned"
        /\ LET pa == args.poly_array
               m == args.coeff_modulus[1]
           IN /\ Len(ret.value) = pa.num_polynomials
              /\ \A i \in 1..pa.num_polynomials :
                    /\ Len(ret.value[i]) = pa.poly_modulus_degree
                    /\ \A j \in 1..pa.poly_modulus_degree :
                          FirstLimbWord(i - 1, j - 1) < m =>
                              IsCentered(ret.value[i][j], FirstLimbWord(i - 1, j - 1), m)

\* Words above m/2 have been decoded, under an even and under an odd modulus
\* alike: here an even one, with the word m/2 beside a word above it.
C1_Witness ==
    /\ op = "convert_to_smallint" /\ pc = "returned"
    /\ args.coeff_modulus[1] = 6
    /\ args.poly_array.num_polynomials = 1
    /\ args.poly_array.poly_modulus_degree = 2
    /\ FirstLimbWord(0, 0) = 3 /\ ret.value[1][1] = 3
    /\ FirstLimbWord(0, 1) = 4 /\ ret.value[1][2] = -2

\* The RNS word of a signed value x under modulus m.
Encode(x, m) == x % m

(* C7: for every modulus m and signed x with -m/2 < x <= m/2, decoding the
   word x mod m with convert_to_smallint under first modulus m returns x;
   element-wise, decoding an encoded array reproduces the signed array. *)
C7_RoundTrip ==
    (op = "convert_to_smallint" /\ pc # "called") =>
        /\ pc = "returned"
        /\ LET pa == args.poly_array
               m == args.coeff_modulus[1]
           IN \A i \in 1..pa.num_polynomials, j \in 1..pa.poly_modulus_degree :
                 \A x \in (-WordMax)..WordMax :
                    (-m < 2 * x /\ 2 * x <= m /\ Encode(x, m) = FirstLimbWord(i - 1, j - 1))
                        => ret.value[i][j] = x

\* The array (-2, 0, 2) encoded under the odd modulus 5 has been decoded.
C7_Witness ==
    /\ op = "convert_to_smallint" /\ pc = "returned"
    /\ args.coeff_modulus[1] = 5
    /\ args.poly_array.num_polynomials = 1
    /\ args.poly_array.poly_modulus_degree = 3
    /\ <<FirstLimbWord(0, 0), FirstLimbWord(0, 1), FirstLimbWord(0, 2)>>
          = <<Encode(-2, 5), Encode(0, 5), Encode(2, 5)>>
    /\ ret.value[1] = <<-2, 0, 2>>

\* The centered representative of c modulo m.
Centered(c, m) == CHOOSE d \in (-m)..m : IsCentered(d, c, m)

\* The length of the maximal trailing run of zeros of s.
TrailingZeroRun(s) == Cardinality({k \in 1..Len(s) : \A l \in k..Len(s) : s[l] = 0})

(* C9: for an RNS buffer of num_polynomials * poly_modulus_degree *
   coeff_modulus_size words, convert_to_small_coeffs returns num_polynomials
   rows; every index i * poly_modulus_degree * coeff_modulus_size + j it reads
   lies inside the buffer; row i is the centered representatives of those
   words, j ascending, without its maximal trailing run of zeros, so its
   length is poly_modulus_degree minus that run, and an all-zero polynomial
   gives an empty row. *)
C9_SmallCoeffsRows ==
    (op = "convert_to_small_coeffs" /\ pc # "called") =>
        /\ pc = "returned"
        /\ LET pa == args.poly_array
               num == pa.num_polynomials
               deg == pa.poly_modulus_degree
               m == args.coeff_modulus[1]
               full(i) == [j \in 1..deg |-> Centered(FirstLimbWord(i - 1, j - 1), m)]
           IN /\ Len(pa.rns) = num * deg * pa.coeff_modulus_size
              /\ \A i \in 0..(num - 1), j \in 0..(deg - 1) :
                    rns_index(i, j, deg, pa.coeff_modulus_size) \in 0..(Len(pa.rns) - 1)
              /\ Len(ret.value) = num
              /\ \A i \in 1..num :
                    /\ Len(ret.value[i]) = deg - TrailingZeroRun(full(i))
                    /\ ret.value[i] = SubSeq(full(i), 1, Len(ret.value[i]))
                    /\ (\A j \in 0..(deg - 1) : FirstLimbWord(i - 1, j) = 0)
                          => ret.value[i] = <<>>

\* Two polynomials of several moduli: one all zero, one with a negative
\* coefficient followed by a trailing zero.
C9_Witness ==
    /\ op = "convert_to_small_coeffs" /\ pc = "returned"
    /\ args.poly_array.coeff_modulus_size = 2
    /\ Len(ret.value) = 2
    /\ ret.value[1] = <<>>
    /\ args.poly_array.poly_modulus_degree = 2
    /\ Len(ret.value[2]) = 1 /\ ret.value[2][1] < 0

(***************************************************************************)
(* convert_to_polynomial                                                   *)
(***************************************************************************)
Min(a, b) == IF a <= b THEN a ELSE b

\* slice.chunks(n), n > 0: consecutive pieces of n elements, the last one
\* shorter when n does not divide the length.
Chunks(s, n) ==
    [c \in 1..((Len(s) + n - 1) \div n) |->
        SubSeq(s, (c - 1) * n + 1, Min(c * n, Len(s)))]

\* The integer a Uint holds: its limbs are words, least significant first.
RECURSIVE UintValue(_)
UintValue(limbs) ==
    IF limbs = <<>> THEN 0
    ELSE limbs[1] + 2^WordBits * UintValue(Tail(limbs))

\* Uint::<N>::ZERO
UintZero(N) == [k \in 1..N |-> 0]

\* Zq::try_from(y): the residue y when y is below the ring's modulus, and
\* an out-of-range error otherwise.
ZqTryFrom(y, modulus) ==
    IF UintValue(y) < modulus
    THEN Ok(UintValue(y))
    ELSE [status |-> "err", error |-> "OutOfRangeConversion"]

\* A plausible slip: the N most significant words of the chunk are kept.
from_words_last(x, N) ==
    IF Len(x) < N THEN Panic("x[0..N]") ELSE Ok(SubSeq(x, Len(x) - N + 1, Len(x)))

\* Uint::<N>::from_words(x[0..N].try_into().unwrap())
from_words_first(x, N) ==
    IF Len(x) < N THEN Panic("x[0..N]") ELSE Ok(SubSeq(x, 1, N))

\* A plausible slip: filter_map(|y| Zq::try_from(*y).ok()) in place of the
\* unwrap, which drops the coefficients that are out of range.
poly_coeffs_filter(x, N, modulus) ==
    LET leading_zeros_removed == strip_trailing_value(x, UintZero(N))
        valid == SelectSeq(leading_zeros_removed,
                           LAMBDA y : ZqTryFrom(y, modulus).status = "ok")
    IN Ok([coeffs |-> [k \in 1..Len(valid) |-> ZqTryFrom(valid[k], modulus).value]])

\* The closure of the second map: one group of bigint_values to a Polynomial.
poly_coeffs(x, N, modulus) ==
    LET leading_zeros_removed == strip_trailing_value(x, UintZero(N))
    IN IF \E k \in 1..Len(leading_zeros_removed) :
             ZqTryFrom(leading_zeros_removed[k], modulus).status # "ok"
       THEN Panic("Zq::try_from(*y).unwrap()")
       ELSE Ok([coeffs |-> [k \in 1..Len(leading_zeros_removed) |->
                               ZqTryFrom(leading_zeros_removed[k], modulus).value]])

\* The body of convert_to_polynomial::<B, N>; modulus is the modulus of
\* Zq<N, B>.  bigint_values is collected before the second map starts.
convert_to_polynomial(N, modulus, poly_array) ==
    LET chunk_size == poly_array.coeff_modulus_size
        words == poly_array.multiprecision
        word_chunks == Chunks(words, chunk_size)
        bigint_values == [c \in 1..Len(word_chunks) |-> from_words_first(word_chunks[c], N)]
        groups == Chunks([c \in 1..Len(word_chunks) |-> bigint_values[c].value],
                         poly_array.poly_modulus_degree)
        polys == [p \in 1..Len(groups) |-> poly_coeffs(groups[p], N, modulus)]
    IN IF chunk_size = 0 THEN Panic("chunks(0)")
       ELSE IF \E c \in 1..Len(word_chunks) : bigint_values[c].status # "ok"
       THEN Panic("x[0..N]")
       ELSE IF poly_array.poly_modulus_degree = 0 THEN Panic("chunks(0)")
       ELSE IF \E p \in 1..Len(groups) : polys[p].status # "ok"
       THEN Panic("Zq::try_from(*y).unwrap()")
       ELSE Ok([p \in 1..Len(groups) |-> polys[p].value])

\* The words tried in a multiprecision buffer.
LimbSamples == {0, 1, WordMax - 1, WordMax}

InitPoly ==
    /\ op = "convert_to_polynomial"
    /\ \E N \in 1..MaxLimbs, cms \in 1..MaxWords,
          num \in 0..MaxWords, deg \in 1..MaxWords :
          /\ num * deg * cms <= MaxWords
          /\ \E words \in [1..(num * deg * cms) -> LimbSamples],
                modulus \in {2, WordMax, 2^(WordBits * N) - 1} :
                args = [N |-> N,
                        modulus |-> modulus,
                        poly_array |-> [num_polynomials |-> num,
                                        poly_modulus_degree |-> deg,
                                        coeff_modulus_size |-> cms,
                                        multiprecision |-> words]]
    /\ pc = "called"
    /\ locals = NoValue
    /\ ret = NoValue

\* A call of convert_to_polynomial::<B, N>(poly_array).
ConvertToPolynomial ==
    /\ op = "convert_to_polynomial"
    /\ pc = "called"
    /\ ret' = convert_to_polynomial(args.N, args.modulus, args.poly_array)
    /\ pc' = After(ret')
    /\ UNCHANGED <<op, args, locals>>

NextPoly == ConvertToPolynomial

SpecPoly == InitPoly /\ [][NextPoly]_vars

\* The integer formed from the first n words of chunk c (c counts from 0) of
\* the multiprecision buffer.
RECURSIVE FirstWordsInt(_, _)
FirstWordsInt(c, n) ==
    IF n = 0 THEN 0
    ELSE FirstWordsInt(c, n - 1)
         + args.poly_array.multiprecision[c * args.poly_array.coeff_modulus_size + n]
           * 2^(WordBits * (n - 1))

\* The chunks of the buffer, counted from 0.
ChunkIds == 0..(args.poly_array.num_polynomials * args.poly_array.poly_modulus_degree - 1)

\* Every word of every chunk at the positions N .. chunk_size-1 is zero.
DiscardedWordsZero ==
    \A c \in ChunkIds : \A l \in (args.N + 1)..args.poly_array.coeff_modulus_size :
        args.poly_array.multiprecision[c * args.poly_array.coeff_modulus_size + l] = 0

\* Chunk c holds a valid residue of the ring.
ValidResidue(c) == FirstWordsInt(c, args.N) < args.modulus

\* convert_to_polynomial has run on chunks of at least N words.
PolyCallOver ==
    /\ op = "convert_to_polynomial" /\ pc # "called"
    /\ args.poly_array.coeff_modulus_size >= args.N

(* C5 (as amended): when any coefficient's fixed-limb integer is not a valid
   residue of the ring, convert_to_polynomial panics at the unwrap of
   Zq::try_from; it returns nothing, neither a polynomial or partial list of
   polynomials nor an error value. *)
C5_OutOfRangePanics ==
    (PolyCallOver /\ \E c \in ChunkIds : ~ValidResidue(c)) =>
        /\ pc = "panicked"
        /\ ret = Panic("Zq::try_from(*y).unwrap()")

\* Two polynomials, the first of valid residues only, the second not.
C5_Witness ==
    /\ PolyCallOver /\ pc = "panicked"
    /\ args.poly_array.num_polynomials = 2
    /\ args.poly_array.poly_modulus_degree = 2
    /\ ValidResidue(0) /\ ValidResidue(1) /\ FirstWordsInt(0, args.N) # 0
    /\ ~ValidResidue(2)

(* C5 (as claimed): when any coefficient's fixed-limb integer is not a valid
   residue, the conversion hands an OutOfRangeConversion error value to its
   caller, and no polynomial. *)
C5_AsClaimed ==
    (PolyCallOver /\ \E c \in ChunkIds : ~ValidResidue(c)) =>
        /\ pc = "returned"
        /\ ret.status = "err"
        /\ ret.error = "OutOfRangeConversion"

(* C6: with chunk_size > N, if any discarded word of a chunk (positions
   N .. chunk_size-1) is nonzero, reconstruction fails instead of returning
   the value formed from the first N words of that chunk. *)
C6_NonzeroDiscardedWordFails ==
    (/\ PolyCallOver
     /\ args.poly_array.coeff_modulus_size > args.N
     /\ ~DiscardedWordsZero)
        => pc # "returned"

(* C10: for a buffer of num_polynomials * poly_modulus_degree chunks of
   chunk_size >= N words whose words at positions >= N are zero and whose
   values are valid residues, convert_to_polynomial returns one polynomial
   per consecutive group of poly_modulus_degree chunks, in buffer order;
   coefficient k of polynomial p is the integer formed from the first N words
   of chunk p * poly_modulus_degree + k, and each polynomial has exactly its
   maximal trailing run of zero coefficients removed. *)
C10_PolynomialsFromChunks ==
    (PolyCallOver /\ DiscardedWordsZero /\ \A c \in ChunkIds : ValidResidue(c)) =>
        /\ pc = "returned"
        /\ LET num == args.poly_array.num_polynomials
               deg == args.poly_array.poly_modulus_degree
               full(p) == [k \in 1..deg |-> FirstWordsInt((p - 1) * deg + k - 1, args.N)]
           IN /\ Len(ret.value) = num
              /\ \A p \in 1..num :
                    ret.value[p].coeffs =
                        SubSeq(full(p), 1, deg - TrailingZeroRun(full(p)))

\* Chunks one word longer than the ring's two limbs: a coefficient that uses
\* its second limb, then a zero coefficient, which is trimmed.
C10_Witness ==
    /\ PolyCallOver /\ pc = "returned"
    /\ DiscardedWordsZero
    /\ args.N = 2 /\ args.poly_array.coeff_modulus_size = 3
    /\ args.poly_array.num_polynomials = 1
    /\ args.poly_array.poly_modulus_degree = 2
    /\ FirstWordsInt(0, 2) > WordMax
    /\ Len(ret.value[1].coeffs) = 1

(***************************************************************************)
(* bfv_delta                                                               *)
(***************************************************************************)
\* The n limbs of x, least significant first (Uint::from, into_bigint).
ToLimbs(x, n) == [k \in 1..n |-> (x \div 2^(WordBits * (k - 1))) % 2^WordBits]

\* A plausible slip: unwrap_or(NonZero::ONE) in place of the unwrap.
nonzero_new_or_one(plaintext_modulus) ==
    IF plaintext_modulus = 0
    THEN Ok(ToLimbs(1, RingLimbs))
    ELSE Ok(ToLimbs(plaintext_modulus, RingLimbs))

\* NonZero::new(Uint::from(plaintext_modulus)).unwrap()
nonzero_new(plaintext_modulus) ==
    IF UintValue(ToLimbs(plaintext_modulus, RingLimbs)) = 0
    THEN Panic("NonZero::new(..).unwrap()")
    ELSE Ok(ToLimbs(plaintext_modulus, RingLimbs))

\* A plausible slip: .1, the remainder, in place of .0.
div_rem_1(coeff_modulus, plain_modulus_bigint) ==
    ToLimbs(UintValue(coeff_modulus) % UintValue(plain_modulus_bigint), RingLimbs)

\* coeff_modulus.into_bigint().div_rem(&plain_modulus_bigint).0
div_rem_0(coeff_modulus, plain_modulus_bigint) ==
    ToLimbs(UintValue(coeff_modulus) \div UintValue(plain_modulus_bigint), RingLimbs)

\* Uint::<N>::from_words(limbs[0..N].try_into().unwrap())
from_limbs(limbs, N) ==
    IF N > Len(limbs) THEN Panic("limbs[0..N]") ELSE Ok(SubSeq(limbs, 1, N))

InitDelta ==
    /\ op = "bfv_delta"
    /\ \E N \in 1..(RingLimbs + 1), q \in 0..(2^(WordBits * RingLimbs) - 1), t \in Word :
          args = [N |-> N,
                  coeff_modulus |-> ToLimbs(q, RingLimbs),
                  plaintext_modulus |-> t]
    /\ pc = "called"
    /\ locals = NoValue
    /\ ret = NoValue

\* let plain_modulus_bigint = NonZero::new(Uint::from(plaintext_modulus)).unwrap();
BfvNonZero ==
    /\ op = "bfv_delta"
    /\ pc = "called"
    /\ LET r == nonzero_new(args.plaintext_modulus)
       IN IF r.status = "ok"
          THEN /\ locals' = [plain_modulus_bigint |-> r.value]
               /\ pc' = "div_rem"
               /\ ret' = ret
          ELSE /\ ret' = r
               /\ pc' = "panicked"
               /\ locals' = locals
    /\ UNCHANGED <<op, args>>

\* let delta = coeff_modulus.into_bigint().div_rem(&plain_modulus_bigint).0;
BfvDivRem ==
    /\ op = "bfv_delta"
    /\ pc = "div_rem"
    /\ locals' = [plain_modulus_bigint |-> locals.plain_modulus_bigint,
                  delta |-> div_rem_0(args.coeff_modulus, locals.plain_modulus_bigint)]
    /\ pc' = "from_words"
    /\ UNCHANGED <<op, args, ret>>

\* let limbs = delta.as_limbs().map(|l| l.into());
\* Uint::<N>::from_words(limbs[0..N].try_into().unwrap())
BfvFromWords ==
    /\ op = "bfv_delta"
    /\ pc = "from_words"
    /\ ret' = from_limbs(locals.delta, args.N)
    /\ pc' = After(ret')
    /\ UNCHANGED <<op, args, locals>>

NextDelta == BfvNonZero \/ BfvDivRem \/ BfvFromWords

SpecDelta == InitDelta /\ [][NextDelta]_vars

\* The call of bfv_delta is over.
DeltaCallOver == op = "bfv_delta" /\ pc \in {"returned", "panicked"}

(* C3 (as amended): bfv_delta called with plaintext modulus t = 0 panics at
   the unwrap of NonZero::new, for every coefficient modulus q: no value
   (no delta, no error value) is returned to the caller, and the division
   step is never reached on that path. *)
C3_ZeroModulusPanics ==
    (op = "bfv_delta" /\ args.plaintext_modulus = 0) =>
        /\ pc \in {"called", "panicked"}
        /\ locals = NoValue
        /\ pc = "called" => ret = NoValue
        /\ pc = "panicked" => ret = Panic("NonZero::new(..).unwrap()")

\* bfv_delta has been called with t = 0 and a nonzero q, and has ended.
C3_Witness ==
    /\ DeltaCallOver
    /\ args.plaintext_modulus = 0
    /\ UintValue(args.coeff_modulus) > WordMax

(* C3 (as claimed): bfv_delta called with t = 0 ends by returning a
   ZeroModulus error value to its caller, for every q, without reaching the
   division step. *)
C3_AsClaimed ==
    (op = "bfv_delta" /\ args.plaintext_modulus = 0) =>
        /\ pc \notin {"div_rem", "from_words"}
        /\ locals = NoValue
        /\ DeltaCallOver =>
              (pc = "returned" /\ ret.status = "err" /\ ret.error = "ZeroModulus")

\* What C4 says bfv_delta returns: the low-order N limbs of floor(q/t), as an
\* integer, and q = t * delta + r with 0 <= r < t when floor(q/t) fits them.
DeltaIsQuotient ==
    LET q == UintValue(args.coeff_modulus)
        t == args.plaintext_modulus
        delta == UintValue(ret.value)
    IN /\ pc = "returned"
       /\ ret.status = "ok"
       /\ Len(ret.value) = args.N
       /\ delta = (q \div t) % 2^(WordBits * args.N)
       /\ (q \div t) < 2^(WordBits * args.N) =>
             \E r \in 0..(t - 1) : q = t * delta + r

(* C4 (as amended): for every q and t # 0, and every N up to the limb count
   of the coefficient modulus' ring, bfv_delta returns the low-order N limbs
   of floor(q/t); when floor(q/t) fits N limbs the result is the delta with
   q = t * delta + r and 0 <= r < t.  (For a larger N the slice limbs[0..N]
   panics.) *)
C4_DeltaLowLimbs ==
    (DeltaCallOver /\ args.plaintext_modulus # 0 /\ args.N <= RingLimbs)
        => DeltaIsQuotient

\* A quotient wider than the one limb asked for has been truncated.
C4_Witness ==
    /\ DeltaCallOver /\ pc = "returned"
    /\ args.N = 1
    /\ args.plaintext_modulus = 3
    /\ UintValue(args.coeff_modulus) \div 3 > WordMax
    /\ UintValue(ret.value) # 0

(* C4 (as claimed): for every q and t # 0 (and every N), bfv_delta returns
   the low-order N limbs of floor(q/t), which is floor(q/t) itself whenever
   that fits N limbs. *)
C4_AsClaimed ==
    (DeltaCallOver /\ args.plaintext_modulus # 0) => DeltaIsQuotient

====
